---- MODULE Spec2Model ----
(***************************************************************************)
(* The XML document tree of core/src/xml/tree.rs as a state machine.       *)
(*                                                                         *)
(* A node identity (an XmlNode handle, a GcCell pointer) is an index into  *)
(* the sequence `heap`; heap[n] is the XmlNodeData stored in that cell.    *)
(* Every operation of the source is a function from a heap to a heap and   *)
(* an outcome ("ok", "panic" for a Rust panic, "diverge" for a loop that   *)
(* never ends); the actions apply these functions to inputs drawn from     *)
(* small sets and record the call in `last`.                               *)
(***************************************************************************)
EXTENDS Integers, Sequences, FiniteSets, TLC

VARIABLES heap, objects, id_map, constructed, last, steps

vars == <<heap, objects, id_map, constructed, last, steps>>

(* ------------------------------ bounds --------------------------------- *)

\* Number of nodes the factories create before the calls start.
MaxNodes == 4

\* Number of calls of a run of Spec.
MaxSteps == 4

\* Number of calls of a run of SpecShort.
ShortSteps == 3

\* Number of script objects that may be allocated.
MaxObjects == 2

\* Number of nodes the factories create before the calls of SpecApi start
\* (duplicate allocates up to MaxNodes), and number of calls of its runs.
ApiNodes == 2

ApiSteps == 3

\* Number of nodes of the documents assembled before the calls of SpecRemoval
\* and SpecSerial start, and number of calls of their runs.
DocNodes == 4

DocSteps == 1

SerialSteps == 3

\* Number of nodes of the chain assembled before the calls of SpecNs
\* start, and number of set_attribute_value calls of its runs (the lookups,
\* which change nothing, are not counted).
NsNodes == 3

NsSteps == 2

\* Number of calls of a run of SpecAttr.
AttrSteps == 2

\* Number of calls of a run of SpecValue, the factory calls among them.
ValueSteps == 5

\* Number of attributes of a start tag handed to from_start_event, and
\* number of calls of a run of SpecEvent.
MaxAttributes == 2

EventSteps == 2

\* Number of nodes the factories create before the calls of SpecDiscipline
\* start (duplicate allocates up to MaxNodes), and number of calls of its
\* runs.
DisciplineNodes == 3

DisciplineSteps == 4

(* ------------------------------ values --------------------------------- *)

ELEMENT_NODE == 1

TEXT_NODE == 3

\* Option<T>: None is the empty sequence, Some(x) the one-element sequence.
None == <<>>

Some(x) == <<x>>

unwrap(o) == o[1]

\* A string is the sequence of its code units (WStr): <<104, 105>> is "hi".
ElementNames == {<<97>>}

TextContents == {<<104, 105>>}

AttributeNames == {<<120>>}

AttributeValues == {<<49>>}

\* Inputs of the serializer: the text a<b&c and the one-letter text of code
\* unit 233 (e with acute accent); the attribute names x and y; the values
\* 1 and the two-letter value of a double quote and code unit 233.
SerialContents == {<<97, 60, 98, 38, 99>>, <<233>>}

SerialNames == {<<120>>, <<121>>}

SerialValues == {<<49>>, <<34, 233>>}

\* b"xmlns" and b"xmlns:"
xmlns == <<120, 109, 108, 110, 115>>

xmlns_colon == <<120, 109, 108, 110, 115, 58>>

\* Inputs of the namespace lookups: the attribute names x, xmlns, xmlns: and
\* xmlns:a; the URIs u and v; the prefixes "" and a.
NsNames == {<<120>>, xmlns, xmlns_colon, xmlns_colon \o <<97>>}

NsUris == {<<117>>, <<118>>}

NsPrefixes == {<<>>, <<97>>}

\* Ord of WStr: code units compared in order, a proper prefix first.
StrLess(a, b) ==
    \E k \in 1..(Len(a) + 1) :
        /\ \A j \in 1..(k - 1) : j <= Len(b) /\ a[j] = b[j]
        /\ IF k <= Len(a) THEN k <= Len(b) /\ a[k] < b[k] ELSE k <= Len(b)

\* The keys of a BTreeMap, in the order its iterator yields them.
RECURSIVE SortedKeys(_)
SortedKeys(S) ==
    IF S = {}
    THEN <<>>
    ELSE LET m == CHOOSE x \in S : \A y \in S : x = y \/ StrLess(x, y)
         IN  <<m>> \o SortedKeys(S \ {m})

\* BTreeMap::new()
EmptyMap == <<>>

\* The nodes allocated in heap h.
Nodes(h) == DOMAIN h

(* ------------------------------ factories ------------------------------ *)

\* GcCell::allocate: the new cell is the next index of the heap.
allocate(h, data) == [h |-> Append(h, data), node |-> Len(h) + 1]

new_text(h, contents) ==
    allocate(h, [script_object |-> None,
                 attributes_script_object |-> None,
                 parent |-> None,
                 prev_sibling |-> None,
                 next_sibling |-> None,
                 node_type |-> TEXT_NODE,
                 node_value |-> Some(contents),
                 attributes |-> EmptyMap,
                 children |-> <<>>])

new_element(h, element_name) ==
    allocate(h, [script_object |-> None,
                 attributes_script_object |-> None,
                 parent |-> None,
                 prev_sibling |-> None,
                 next_sibling |-> None,
                 node_type |-> ELEMENT_NODE,
                 node_value |-> Some(element_name),
                 attributes |-> EmptyMap,
                 children |-> <<>>])

new_document_root(h) ==
    allocate(h, [script_object |-> None,
                 parent |-> None,
                 prev_sibling |-> None,
                 next_sibling |-> None,
                 node_type |-> ELEMENT_NODE,
                 node_value |-> None,
                 attributes |-> EmptyMap,
                 attributes_script_object |-> None,
                 children |-> <<>>])

(* ------------------------------ accessors ------------------------------ *)

parent(h, n) == h[n].parent

prev_sibling(h, n) == h[n].prev_sibling

next_sibling(h, n) == h[n].next_sibling

set_prev_sibling(h, n, new_prev) == [h EXCEPT ![n].prev_sibling = new_prev]

set_next_sibling(h, n, new_next) == [h EXCEPT ![n].next_sibling = new_next]

children_len(h, n) == Len(h[n].children)

\* The sequence the child iterator yields: the children list, in order.
children(h, n) == h[n].children

\* Vec::get with a 0-based index.
get_child_by_index(h, n, index) ==
    IF index >= 0 /\ index < Len(h[n].children)
    THEN Some(h[n].children[index + 1])
    ELSE None

\* 0-based position of the first occurrence of child in self's children.
child_position(h, self, child) ==
    LET found == {i \in 1..Len(children(h, self)) : children(h, self)[i] = child}
    IN  IF found = {}
        THEN None
        ELSE Some((CHOOSE i \in found : \A j \in found : i <= j) - 1)

has_child(h, self, child) == parent(h, child) = Some(self)

\* The ancestor iterator: self, its parent, its parent's parent, ...  The
\* walk ends at a parentless node; `loops` tells that the parent chain
\* returns to a node already yielded, so that the iterator never ends.
RECURSIVE AnscIter(_, _, _)
AnscIter(h, next, yielded) ==
    IF next = None
    THEN [nodes |-> yielded, loops |-> FALSE]
    ELSE IF \E i \in 1..Len(yielded) : yielded[i] = unwrap(next)
         THEN [nodes |-> yielded, loops |-> TRUE]
         ELSE AnscIter(h, h[unwrap(next)].parent, Append(yielded, unwrap(next)))

ancestors(h, self) == AnscIter(h, Some(self), <<>>)

(* --------------------------- sibling lists ----------------------------- *)

\* disown_siblings that clears the links of the node and leaves the links
\* of its neighbours as they were.
disown_siblings_of_self_only(h, self) ==
    set_next_sibling(set_prev_sibling(h, self, None), self, None)

disown_siblings(h, self) ==
    LET old_prev == prev_sibling(h, self)
        old_next == next_sibling(h, self)
        h1 == IF old_prev # None
              THEN set_next_sibling(h, unwrap(old_prev), old_next)
              ELSE h
        h2 == IF old_next # None
              THEN set_prev_sibling(h1, unwrap(old_next), old_prev)
              ELSE h1
        h3 == set_prev_sibling(h2, self, None)
    IN  set_next_sibling(h3, self, None)

disown_parent(h, self) == [h EXCEPT ![self].parent = None]

\* adopt_siblings without the next sibling's link back to the node.
adopt_siblings_one_way(h, self, new_prev, new_next) ==
    LET h1 == IF new_prev # None
              THEN set_next_sibling(h, unwrap(new_prev), Some(self))
              ELSE h
        h3 == set_prev_sibling(h1, self, new_prev)
    IN  set_next_sibling(h3, self, new_next)

adopt_siblings(h, self, new_prev, new_next) ==
    LET h1 == IF new_prev # None
              THEN set_next_sibling(h, unwrap(new_prev), Some(self))
              ELSE h
        h2 == IF new_next # None
              THEN set_prev_sibling(h1, unwrap(new_next), Some(self))
              ELSE h1
        h3 == set_prev_sibling(h2, self, new_prev)
    IN  set_next_sibling(h3, self, new_next)

\* Vec::remove with a 0-based index.
VecRemove(s, position) ==
    SubSeq(s, 1, position) \o SubSeq(s, position + 2, Len(s))

\* Vec::insert with a 0-based index, 0 <= position <= Len(s).
VecInsert(s, position, x) ==
    SubSeq(s, 1, position) \o <<x>> \o SubSeq(s, position + 1, Len(s))

orphan_child(h, self, child) ==
    LET position == child_position(h, self, child)
    IN  IF position # None
        THEN [h EXCEPT ![self].children = VecRemove(@, unwrap(position))]
        ELSE h

(* ------------------------------ mutation ------------------------------- *)

\* A cycle check that looks at the proper ancestors of the container and
\* not at the container itself.
is_cyclic_proper_ancestors(h, self, child) ==
    \E i \in 2..Len(ancestors(h, self).nodes) : ancestors(h, self).nodes[i] = child

\* Lines 247-249: child is self or is on self's parent chain.
is_cyclic(h, self, child) ==
    \E i \in 1..Len(ancestors(h, self).nodes) : ancestors(h, self).nodes[i] = child

\* Lines 254-271, the part of insert_child after the cycle check.  A GcCell
\* panics when it is written while borrowed: the read of child.parent is
\* held across orphan_child, and the write borrow of self taken for
\* `children` is held across adopt_siblings.
insert_child_tail(h, self, position, child) ==
    LET old_parent == h[child].parent
        orphans == old_parent # None /\ unwrap(old_parent) # self
        h1 == IF orphans THEN orphan_child(h, unwrap(old_parent), child) ELSE h
        h2 == [h1 EXCEPT ![child].parent = Some(self)]
        h3 == [h2 EXCEPT ![self].children = VecInsert(@, position, child)]
        new_prev == IF position >= 1
                    THEN get_child_by_index(h3, self, position - 1)
                    ELSE None
        new_next == get_child_by_index(h3, self, position + 1)
    IN  IF orphans /\ unwrap(old_parent) = child
              /\ child_position(h, child, child) # None
        THEN [h |-> h, outcome |-> "panic"]
        ELSE IF position > Len(h2[self].children)
        THEN [h |-> h2, outcome |-> "panic"]
        ELSE IF new_prev = Some(self)
        THEN [h |-> h3, outcome |-> "panic"]
        ELSE IF new_next = Some(self)
        THEN [h |-> IF new_prev # None
                    THEN set_next_sibling(h3, unwrap(new_prev), Some(child))
                    ELSE h3,
              outcome |-> "panic"]
        ELSE [h |-> adopt_siblings(h3, child, new_prev, new_next),
              outcome |-> "ok"]

\* insert_child with a cycle check that looks at the container alone.
insert_child_checks_self_only(h, self, position, child) ==
    IF self = child
    THEN [h |-> h, outcome |-> "ok"]
    ELSE insert_child_tail(h, self, position, child)

insert_child(h, self, position, child) ==
    IF is_cyclic(h, self, child)
    THEN [h |-> h, outcome |-> "ok"]
    ELSE IF ancestors(h, self).loops
    THEN [h |-> h, outcome |-> "diverge"]
    ELSE insert_child_tail(h, self, position, child)

append_child(h, self, child) ==
    insert_child(h, self, children_len(h, self), child)

\* remove_node that leaves the parent link as it was.
remove_node_keeps_parent(h, self) ==
    IF parent(h, self) = None
    THEN [h |-> h, outcome |-> "ok"]
    ELSE LET p == unwrap(parent(h, self))
             position == child_position(h, p, self)
         IN  IF position = None
             THEN [h |-> h, outcome |-> "panic"]
             ELSE LET h1 == [h EXCEPT ![p].children = VecRemove(@, unwrap(position))]
                  IN  [h |-> disown_siblings(h1, self), outcome |-> "ok"]

\* remove_node that leaves the sibling links as they were.
remove_node_keeps_links(h, self) ==
    IF parent(h, self) = None
    THEN [h |-> h, outcome |-> "ok"]
    ELSE LET p == unwrap(parent(h, self))
             position == child_position(h, p, self)
         IN  IF position = None
             THEN [h |-> h, outcome |-> "panic"]
             ELSE LET h1 == [h EXCEPT ![p].children = VecRemove(@, unwrap(position))]
                  IN  [h |-> disown_parent(h1, self), outcome |-> "ok"]

remove_node(h, self) ==
    IF parent(h, self) = None
    THEN [h |-> h, outcome |-> "ok"]
    ELSE LET p == unwrap(parent(h, self))
             position == child_position(h, p, self)
         IN  IF position = None
             THEN [h |-> h, outcome |-> "panic"]
             ELSE LET h1 == [h EXCEPT ![p].children = VecRemove(@, unwrap(position))]
                      h2 == disown_siblings(h1, self)
                  IN  [h |-> disown_parent(h2, self), outcome |-> "ok"]

(* ------------------------- script objects ------------------------------ *)

\* A script object (Object<'gc>) is the serial number of its allocation;
\* `objects` counts the objects allocated so far.

get_script_object(h, self) == h[self].script_object

\* introduce_script_object that overwrites an established link.
introduce_script_object_overwrites(h, self, new_object) ==
    [h |-> [h EXCEPT ![self].script_object = Some(new_object)], outcome |-> "ok"]

\* introduce_script_object that asserts after it has written.
introduce_script_object_writes_first(h, self, new_object) ==
    IF get_script_object(h, self) # None
    THEN [h |-> [h EXCEPT ![self].script_object = Some(new_object)], outcome |-> "panic"]
    ELSE [h |-> [h EXCEPT ![self].script_object = Some(new_object)], outcome |-> "ok"]

introduce_script_object(h, self, new_object) ==
    IF get_script_object(h, self) # None
    THEN [h |-> h, outcome |-> "panic"]
    ELSE [h |-> [h EXCEPT ![self].script_object = Some(new_object)], outcome |-> "ok"]

\* XmlNodeObject::from_xml_node, the factory of section 4.8: it allocates
\* the object of the node and binds it to the node.
XmlNodeObject_from_xml_node(h, n_objects, xml_node) ==
    LET object == n_objects + 1
        r == introduce_script_object(h, xml_node, object)
    IN  [h |-> r.h, objects |-> object, object |-> object, outcome |-> r.outcome]

\* XmlAttributesObject::from_xml_node: it allocates the object of the
\* node's attributes.
XmlAttributesObject_from_xml_node(n_objects, xml_node) ==
    [objects |-> n_objects + 1, object |-> n_objects + 1]

\* script_object that constructs an object whether or not one is bound.
script_object_always_constructs(h, n_objects, self) ==
    XmlNodeObject_from_xml_node(h, n_objects, self)

script_object(h, n_objects, self) ==
    IF get_script_object(h, self) # None
    THEN [h |-> h, objects |-> n_objects,
          object |-> unwrap(get_script_object(h, self)), outcome |-> "ok"]
    ELSE XmlNodeObject_from_xml_node(h, n_objects, self)

attribute_script_object(h, n_objects, self) ==
    IF h[self].attributes_script_object # None
    THEN [h |-> h, objects |-> n_objects,
          object |-> unwrap(h[self].attributes_script_object), outcome |-> "ok"]
    ELSE LET made == XmlAttributesObject_from_xml_node(n_objects, self)
         IN  [h |-> [h EXCEPT ![self].attributes_script_object = Some(made.object)],
              objects |-> made.objects, object |-> made.object, outcome |-> "ok"]

(* ------------------------ swap, duplicate, attributes ------------------ *)

\* swap that copies the other node's data and leaves the other node's.
swap_copies_one_way(h, self, other) ==
    IF self # other
    THEN [h EXCEPT ![self] = h[other]]
    ELSE h

\* mem::swap of the two cells' XmlNodeData.
swap(h, self, other) ==
    IF self # other
    THEN [h EXCEPT ![self] = h[other], ![other] = h[self]]
    ELSE h

\* duplicate; `path` holds the nodes whose duplication is under way: a node
\* that is its own descendant is duplicated without end, outcome "diverge".
RECURSIVE duplicate_node(_, _, _, _)
RECURSIVE duplicate_children(_, _, _, _, _, _)
duplicate_children(h, self, clone, position, deep, path) ==
    IF position >= children_len(h, self)
    THEN [h |-> h, node |-> clone, outcome |-> "ok"]
    ELSE LET d == duplicate_node(h, unwrap(get_child_by_index(h, self, position)),
                                 deep, path)
         IN  IF d.outcome # "ok"
             THEN [h |-> d.h, node |-> clone, outcome |-> d.outcome]
             ELSE LET r == insert_child(d.h, clone, position, d.node)
                  IN  IF r.outcome # "ok"
                      THEN [h |-> r.h, node |-> clone, outcome |-> r.outcome]
                      ELSE duplicate_children(r.h, self, clone, position + 1, deep, path)

duplicate_node(h, self, deep, path) ==
    IF self \in path
    THEN [h |-> h, node |-> self, outcome |-> "diverge"]
    ELSE LET a == allocate(h, [script_object |-> None,
                               attributes_script_object |-> None,
                               parent |-> None,
                               prev_sibling |-> None,
                               next_sibling |-> None,
                               node_type |-> h[self].node_type,
                               node_value |-> h[self].node_value,
                               attributes |-> h[self].attributes,
                               children |-> <<>>])
         IN  IF deep
             THEN duplicate_children(a.h, self, a.node, 0, deep, path \cup {self})
             ELSE [h |-> a.h, node |-> a.node, outcome |-> "ok"]

\* duplicate that copies the kind and the attributes, not the value.
duplicate_without_value(h, self, deep) ==
    LET r == duplicate_node(h, self, deep, {})
    IN  [r EXCEPT !.h = [r.h EXCEPT ![r.node].node_value = None]]

duplicate(h, self, deep) == duplicate_node(h, self, deep, {})

attribute_value(h, self, name) ==
    IF name \in DOMAIN h[self].attributes
    THEN Some(h[self].attributes[name])
    ELSE None

attribute_keys(h, self) == SortedKeys(DOMAIN h[self].attributes)

\* BTreeMap::insert
MapInsert(m, key, value) ==
    [k \in (DOMAIN m) \cup {key} |-> IF k = key THEN value ELSE m[k]]

\* BTreeMap::remove
MapRemove(m, key) == [k \in (DOMAIN m) \ {key} |-> m[k]]

\* set_attribute_value that drops the other attributes of the node.
set_attribute_value_alone(h, self, name, value) ==
    [h EXCEPT ![self].attributes = MapInsert(EmptyMap, name, value)]

set_attribute_value(h, self, name, value) ==
    [h EXCEPT ![self].attributes = MapInsert(@, name, value)]

delete_attribute(h, self, name) ==
    [h EXCEPT ![self].attributes = MapRemove(@, name)]

set_node_value(h, self, value) == [h EXCEPT ![self].node_value = Some(value)]

(* ------------------------------ namespaces ----------------------------- *)

\* s with the order of its elements reversed.
Reverse(s) == [i \in 1..Len(s) |-> s[Len(s) + 1 - i]]

\* Lines 488-496: the URI that `node` declares for the namespace, if any.
declared_uri(h, node, namespace, attribute_name) ==
    IF namespace = <<>> /\ attribute_value(h, node, xmlns) # None
    THEN attribute_value(h, node, xmlns)
    ELSE attribute_value(h, node, attribute_name)

\* Lines 487-497: the loop over the nodes the ancestor iterator yields.
RECURSIVE lookup_uri_walk(_, _, _, _)
lookup_uri_walk(h, nodes, namespace, attribute_name) ==
    IF nodes = <<>>
    THEN None
    ELSE LET url == declared_uri(h, nodes[1], namespace, attribute_name)
         IN  IF url # None
             THEN url
             ELSE lookup_uri_walk(h, SubSeq(nodes, 2, Len(nodes)),
                                  namespace, attribute_name)

\* lookup_uri_for_namespace that walks from the farthest ancestor inwards.
lookup_uri_for_namespace_farthest_first(h, self, namespace) ==
    LET walk == ancestors(h, self)
        url == lookup_uri_walk(h, Reverse(walk.nodes), namespace,
                               xmlns_colon \o namespace)
    IN  IF url = None /\ walk.loops
        THEN [result |-> None, outcome |-> "diverge"]
        ELSE [result |-> url, outcome |-> "ok"]

\* Without a match the loop ends when the iterator does: never, if the
\* parent chain returns to a node already visited.
lookup_uri_for_namespace(h, self, namespace) ==
    LET walk == ancestors(h, self)
        url == lookup_uri_walk(h, walk.nodes, namespace, xmlns_colon \o namespace)
    IN  IF url = None /\ walk.loops
        THEN [result |-> None, outcome |-> "diverge"]
        ELSE [result |-> url, outcome |-> "ok"]

\* WStr::starts_with
starts_with(s, prefix) ==
    Len(s) >= Len(prefix) /\ SubSeq(s, 1, Len(prefix)) = prefix

\* Lines 511-519 with a scan that ends at the first attribute whose value
\* is the URI, whatever its key.
RECURSIVE scan_attributes_first_equal(_, _, _)
scan_attributes_first_equal(attrs, keys, uri) ==
    IF keys = <<>>
    THEN None
    ELSE LET attr == keys[1]
         IN  IF attrs[attr] = uri
             THEN IF attr = xmlns
                  THEN Some(<<>>)
                  ELSE IF starts_with(attr, xmlns_colon)
                  THEN Some(SubSeq(attr, Len(xmlns_colon) + 1, Len(attr)))
                  ELSE None
             ELSE scan_attributes_first_equal(attrs, SubSeq(keys, 2, Len(keys)), uri)

\* Lines 511-519: the scan of one node's attributes, in key order.
RECURSIVE scan_attributes(_, _, _)
scan_attributes(attrs, keys, uri) ==
    IF keys = <<>>
    THEN None
    ELSE LET attr == keys[1]
         IN  IF attrs[attr] = uri /\ attr = xmlns
             THEN Some(<<>>)
             ELSE IF attrs[attr] = uri /\ starts_with(attr, xmlns_colon)
             THEN Some(SubSeq(attr, Len(xmlns_colon) + 1, Len(attr)))
             ELSE scan_attributes(attrs, SubSeq(keys, 2, Len(keys)), uri)

\* Lines 510-520: the loop over the nodes the ancestor iterator yields.
RECURSIVE lookup_namespace_walk(_, _, _)
lookup_namespace_walk(h, nodes, uri) ==
    IF nodes = <<>>
    THEN None
    ELSE LET found == scan_attributes(h[nodes[1]].attributes,
                                      SortedKeys(DOMAIN h[nodes[1]].attributes), uri)
         IN  IF found # None
             THEN found
             ELSE lookup_namespace_walk(h, SubSeq(nodes, 2, Len(nodes)), uri)

lookup_namespace_for_uri(h, self, uri) ==
    LET walk == ancestors(h, self)
        found == lookup_namespace_walk(h, walk.nodes, uri)
    IN  IF found = None /\ walk.loops
        THEN [result |-> None, outcome |-> "diverge"]
        ELSE [result |-> found, outcome |-> "ok"]

(* ------------------------------ serializer ----------------------------- *)

\* WStr::to_utf8_lossy: the UTF-8 bytes of the string; a surrogate pair is
\* one four-byte character, an unpaired surrogate becomes U+FFFD.
RECURSIVE to_utf8_lossy(_)
to_utf8_lossy(s) ==
    IF s = <<>>
    THEN <<>>
    ELSE LET u == s[1]
             rest == SubSeq(s, 2, Len(s))
         IN  IF u < 128
             THEN <<u>> \o to_utf8_lossy(rest)
             ELSE IF u < 2048
             THEN <<192 + (u \div 64), 128 + (u % 64)>> \o to_utf8_lossy(rest)
             ELSE IF u >= 55296 /\ u < 56320 /\ rest # <<>>
                     /\ rest[1] >= 56320 /\ rest[1] < 57344
             THEN LET c == 65536 + (u - 55296) * 1024 + (rest[1] - 56320)
                  IN  <<240 + (c \div 262144), 128 + ((c \div 4096) % 64),
                        128 + ((c \div 64) % 64), 128 + (c % 64)>>
                      \o to_utf8_lossy(SubSeq(rest, 2, Len(rest)))
             ELSE IF u >= 55296 /\ u < 57344
             THEN <<239, 191, 189>> \o to_utf8_lossy(rest)
             ELSE <<224 + (u \div 4096), 128 + ((u \div 64) % 64), 128 + (u % 64)>>
                  \o to_utf8_lossy(rest)

\* quick_xml::escape::escape: < > ' & " become &lt; &gt; &apos; &amp; &quot;
RECURSIVE escape(_)
escape(raw) ==
    IF raw = <<>>
    THEN <<>>
    ELSE (CASE raw[1] = 60 -> <<38, 108, 116, 59>>
            [] raw[1] = 62 -> <<38, 103, 116, 59>>
            [] raw[1] = 39 -> <<38, 97, 112, 111, 115, 59>>
            [] raw[1] = 38 -> <<38, 97, 109, 112, 59>>
            [] raw[1] = 34 -> <<38, 113, 117, 111, 116, 59>>
            [] OTHER -> <<raw[1]>>)
         \o escape(SubSeq(raw, 2, Len(raw)))

\* Lines 542-550: the attributes of a start tag, in key order.
RECURSIVE write_attributes(_, _)
write_attributes(attrs, keys) ==
    IF keys = <<>>
    THEN <<>>
    ELSE <<32>> \o keys[1] \o <<61, 34>> \o escape(to_utf8_lossy(attrs[keys[1]]))
         \o <<34>> \o write_attributes(attrs, SubSeq(keys, 2, Len(keys)))

\* The render of node n.  `path` holds the nodes whose render is under way:
\* a node that comes up again below itself is rendered again without end
\* (the recursion overflows the stack), outcome "diverge".  A text node
\* without a value panics in unwrap.
RECURSIVE write_node_to_string(_, _, _)
RECURSIVE write_children(_, _, _, _)
write_children(h, cs, i, path) ==
    IF i > Len(cs)
    THEN [out |-> <<>>, outcome |-> "ok"]
    ELSE LET r == write_node_to_string(h, cs[i], path)
         IN  IF r.outcome # "ok"
             THEN r
             ELSE LET rest == write_children(h, cs, i + 1, path)
                  IN  [out |-> r.out \o rest.out, outcome |-> rest.outcome]

write_node_to_string(h, n, path) ==
    IF n \in path
    THEN [out |-> <<>>, outcome |-> "diverge"]
    ELSE IF h[n].node_type = ELEMENT_NODE
    THEN LET inner == write_children(h, h[n].children, 1, path \cup {n})
         IN  IF h[n].node_value # None
             THEN LET tag_name == unwrap(h[n].node_value)
                      open == <<60>> \o tag_name
                              \o write_attributes(h[n].attributes,
                                                  SortedKeys(DOMAIN h[n].attributes))
                  IN  IF h[n].children = <<>>
                      THEN [out |-> open \o <<32, 47, 62>>, outcome |-> "ok"]
                      ELSE IF inner.outcome # "ok"
                      THEN inner
                      ELSE [out |-> open \o <<62>> \o inner.out
                                    \o <<60, 47>> \o tag_name \o <<62>>,
                            outcome |-> "ok"]
             ELSE inner
    ELSE IF h[n].node_value = None
    THEN [out |-> <<>>, outcome |-> "panic"]
    ELSE [out |-> escape(to_utf8_lossy(unwrap(h[n].node_value))), outcome |-> "ok"]

into_string(h, n) == write_node_to_string(h, n, {})

(* ------------------------------ parse events --------------------------- *)

\* A continuation byte of a UTF-8 sequence.
continuation(b) == b >= 128 /\ b <= 191

\* AvmString::new_utf8_bytes: the UTF-16 code units of a byte string that
\* is well-formed UTF-8, and an error (Utf8Error) for any other byte string.
RECURSIVE new_utf8_bytes(_)
new_utf8_bytes(bytes) ==
    LET n == Len(bytes)
        b == bytes[1]
        error == [ok |-> FALSE, units |-> <<>>]
        then(units, used) ==
            LET rest == new_utf8_bytes(SubSeq(bytes, used + 1, n))
            IN  IF rest.ok THEN [ok |-> TRUE, units |-> units \o rest.units] ELSE error
    IN  IF bytes = <<>>
        THEN [ok |-> TRUE, units |-> <<>>]
        ELSE IF b < 128
        THEN then(<<b>>, 1)
        ELSE IF b >= 194 /\ b <= 223
        THEN IF n >= 2 /\ continuation(bytes[2])
             THEN then(<<(b - 192) * 64 + (bytes[2] - 128)>>, 2)
             ELSE error
        ELSE IF b >= 224 /\ b <= 239
        THEN IF /\ n >= 3
                /\ continuation(bytes[2])
                /\ continuation(bytes[3])
                /\ (b = 224 => bytes[2] >= 160)
                /\ (b = 237 => bytes[2] <= 159)
             THEN then(<<(b - 224) * 4096 + (bytes[2] - 128) * 64 + (bytes[3] - 128)>>, 3)
             ELSE error
        ELSE IF b >= 240 /\ b <= 244
        THEN IF /\ n >= 4
                /\ continuation(bytes[2])
                /\ continuation(bytes[3])
                /\ continuation(bytes[4])
                /\ (b = 240 => bytes[2] >= 144)
                /\ (b = 244 => bytes[2] <= 143)
             THEN LET c == (b - 240) * 262144 + (bytes[2] - 128) * 4096
                           + (bytes[3] - 128) * 64 + (bytes[4] - 128) - 65536
                  IN  then(<<55296 + (c \div 1024), 56320 + (c % 1024)>>, 4)
             ELSE error
        ELSE error

\* The position of the first `;` of the byte string, 0 when there is none.
first_semicolon(text) ==
    IF \E i \in DOMAIN text : text[i] = 59
    THEN CHOOSE i \in DOMAIN text : text[i] = 59 /\ \A j \in 1..(i - 1) : text[j] # 59
    ELSE 0

\* The value of a digit 0-9, a-f, A-F, and -1 for any other byte.
digit(b) ==
    IF b >= 48 /\ b <= 57 THEN b - 48
    ELSE IF b >= 97 /\ b <= 102 THEN b - 87
    ELSE IF b >= 65 /\ b <= 70 THEN b - 55
    ELSE -1

\* The number written by `digits` in the base 10 or 16, and -1 when a byte
\* is no digit of the base.  Any count of digits is read, leading zeros
\* among them; a number above 0x10FFFF, which is no character whatever
\* follows, is kept as 0x110000.
RECURSIVE parse_digits(_, _, _)
parse_digits(digits, base, code) ==
    IF digits = <<>>
    THEN code
    ELSE IF digit(digits[1]) < 0 \/ digit(digits[1]) >= base
    THEN -1
    ELSE LET next == code * base + digit(digits[1])
         IN  parse_digits(Tail(digits), base,
                          IF next > 1114111 THEN 1114112 ELSE next)

\* parse_number of quick_xml::escape: the character of &#...; or &#x...;
\* (`body` is what stands between &# and ;), and -1 for the errors: no
\* digit, a byte that is no digit, the code 0, a surrogate, a code above
\* 0x10FFFF.
parse_number(body) ==
    LET hex == body # <<>> /\ body[1] = 120
        digits == IF hex THEN Tail(body) ELSE body
        code == parse_digits(digits, IF hex THEN 16 ELSE 10, 0)
    IN  IF code <= 0 \/ code > 1114111 \/ (code >= 55296 /\ code <= 57343)
        THEN -1
        ELSE code

\* char::encode_utf8: the UTF-8 bytes of a character.
encode_utf8(c) ==
    IF c < 128
    THEN <<c>>
    ELSE IF c < 2048
    THEN <<192 + (c \div 64), 128 + (c % 64)>>
    ELSE IF c < 65536
    THEN <<224 + (c \div 4096), 128 + ((c \div 64) % 64), 128 + (c % 64)>>
    ELSE <<240 + (c \div 262144), 128 + ((c \div 4096) % 64),
           128 + ((c \div 64) % 64), 128 + (c % 64)>>

\* quick_xml Attribute::unescaped_value: from each & to the next ; stands
\* an entity; &lt; &gt; &amp; &apos; &quot; become < > & ' ", &#n; and
\* &#xh; become the character of that code, and an & without a ; or with
\* any other name is an error.
RECURSIVE unescaped_value(_)
unescaped_value(raw) ==
    LET error == [ok |-> FALSE, bytes |-> <<>>]
        then(bytes, used) ==
            LET rest == unescaped_value(SubSeq(raw, used + 1, Len(raw)))
            IN  IF rest.ok THEN [ok |-> TRUE, bytes |-> bytes \o rest.bytes] ELSE error
        end == first_semicolon(raw)
        entity == SubSeq(raw, 2, end - 1)
        code == parse_number(Tail(entity))
    IN  IF raw = <<>>
        THEN [ok |-> TRUE, bytes |-> <<>>]
        ELSE IF raw[1] # 38
        THEN then(<<raw[1]>>, 1)
        ELSE IF end = 0
        THEN error
        ELSE IF entity = <<108, 116>>
        THEN then(<<60>>, end)
        ELSE IF entity = <<103, 116>>
        THEN then(<<62>>, end)
        ELSE IF entity = <<97, 109, 112>>
        THEN then(<<38>>, end)
        ELSE IF entity = <<97, 112, 111, 115>>
        THEN then(<<39>>, end)
        ELSE IF entity = <<113, 117, 111, 116>>
        THEN then(<<34>>, end)
        ELSE IF entity # <<>> /\ entity[1] = 35
        THEN IF code < 0 THEN error ELSE then(encode_utf8(code), end)
        ELSE error

\* The attribute key b"id" of line 132.
id == <<105, 100>>

\* ScriptObject::define_value on the id-map: the property `name` of the
\* map is the object `value`, whether or not the property was defined.
define_value(map, name, value) == MapInsert(map, name, value)

\* Lines 124-139: the attributes of the start tag, in the order of the
\* tag.  An attribute is set on the node, and an `id` attribute is recorded
\* in the id-map, before the next attribute is looked at; the first
\* attribute that is malformed or does not decode ends the loop with the
\* error.
RECURSIVE from_start_event_attributes(_, _, _, _, _)
from_start_event_attributes(h, n_objects, map, node, attributes) ==
    IF attributes = <<>>
    THEN [h |-> h, objects |-> n_objects, id_map |-> map, ok |-> TRUE]
    ELSE LET attribute == Head(attributes)
             key == new_utf8_bytes(attribute.key)
             value_bytes == unescaped_value(attribute.value)
             value == new_utf8_bytes(value_bytes.bytes)
             failed == \/ attribute.malformed
                       \/ ~key.ok
                       \/ ~value_bytes.ok
                       \/ ~value.ok
             set == set_attribute_value(h, node, key.units, value.units)
             wrapper == script_object(set, n_objects, node)
         IN  IF failed
             THEN [h |-> h, objects |-> n_objects, id_map |-> map, ok |-> FALSE]
             ELSE IF attribute.key = id
             THEN from_start_event_attributes(
                      wrapper.h, wrapper.objects,
                      define_value(map, value.units, wrapper.object),
                      node, Tail(attributes))
             ELSE from_start_event_attributes(set, n_objects, map, node,
                                              Tail(attributes))

\* bs.attributes() of line 124: the items the attribute iterator yields for
\* the attributes written in the tag.  The iterator checks for repeated
\* keys: an attribute whose key was yielded before comes out as an error,
\* as a malformed attribute does.
bs_attributes(written) ==
    [i \in DOMAIN written |->
        IF \/ written[i].malformed
           \/ \E j \in 1..(i - 1) :
                 ~written[j].malformed /\ written[j].key = written[i].key
        THEN [malformed |-> TRUE, key |-> <<>>, value |-> <<>>]
        ELSE written[i]]

\* from_start_event (lines 117-142): the element of a start tag.  `result`
\* is the node of Ok(node) and None for Err; `h`, `objects` and `id_map`
\* are the heap, the objects and the id-map the call leaves.
from_start_event(h, n_objects, map, name, attributes) ==
    LET tag_name == new_utf8_bytes(name)
        made == new_element(h, tag_name.units)
        filled == from_start_event_attributes(made.h, n_objects, map,
                                              made.node, bs_attributes(attributes))
    IN  IF ~tag_name.ok
        THEN [h |-> h, objects |-> n_objects, id_map |-> map, result |-> None]
        ELSE [h |-> filled.h, objects |-> filled.objects, id_map |-> filled.id_map,
              result |-> IF filled.ok THEN Some(made.node) ELSE None]

(* ------------------------------ actions -------------------------------- *)

\* The record of the last call: its name, its arguments (0 and -1 where
\* the call has none; `argument` holds the strings handed over), how it
\* ended and, for the calls that only read the tree, the value returned.
Call(op, self, child, position, object, outcome) ==
    [op |-> op, self |-> self, child |-> child, position |-> position,
     object |-> object, outcome |-> outcome, argument |-> None, result |-> None]

\* The record of a call that read the tree: its argument and its result.
Read(op, self, argument, outcome, result) ==
    [Call(op, self, 0, -1, 0, outcome) EXCEPT !.argument = argument,
                                              !.result = result]

\* A panic or a loop that never ends is the end of the run.
Running == last.outcome = "ok"

\* The record of the calls of XmlNodeObject::from_xml_node after a call
\* that had the factory construct `made` objects (0 or 1): the node the
\* object was constructed for, the object, and whether swap has exchanged
\* the contents of that node since.
Constructed(log, made, node, object) ==
    IF made > 0
    THEN Append(log, [node |-> node, object |-> object, swapped |-> FALSE])
    ELSE log

\* The record after swap has exchanged the contents of two different nodes.
Swapped(log, self, other) ==
    [i \in DOMAIN log |->
        IF self # other /\ log[i].node \in {self, other}
        THEN [log[i] EXCEPT !.swapped = TRUE]
        ELSE log[i]]

InsertChild(self, position, child) ==
    /\ Running
    /\ LET r == insert_child(heap, self, position, child)
       IN  /\ heap' = r.h
           /\ last' = Call("insert_child", self, child, position, 0, r.outcome)
    /\ UNCHANGED <<objects, id_map, constructed>>

AppendChild(self, child) ==
    /\ Running
    /\ LET r == append_child(heap, self, child)
       IN  /\ heap' = r.h
           /\ last' = Call("append_child", self, child,
                           children_len(heap, self), 0, r.outcome)
    /\ UNCHANGED <<objects, id_map, constructed>>

RemoveNode(self) ==
    /\ Running
    /\ LET r == remove_node(heap, self)
       IN  /\ heap' = r.h
           /\ last' = Call("remove_node", self, 0, -1, 0, r.outcome)
    /\ UNCHANGED <<objects, id_map, constructed>>

IntroduceScriptObject(self, new_object) ==
    /\ Running
    /\ new_object <= MaxObjects
    /\ LET r == introduce_script_object(heap, self, new_object)
       IN  /\ heap' = r.h
           /\ last' = Call("introduce_script_object", self, 0, -1, new_object, r.outcome)
    /\ objects' = IF new_object > objects THEN new_object ELSE objects
    /\ UNCHANGED <<id_map, constructed>>

ScriptObject(self) ==
    /\ Running
    /\ get_script_object(heap, self) # None \/ objects < MaxObjects
    /\ LET r == script_object(heap, objects, self)
       IN  /\ heap' = r.h
           /\ objects' = r.objects
           /\ last' = Call("script_object", self, 0, -1, r.object, r.outcome)
           /\ constructed' = Constructed(constructed, r.objects - objects, self, r.object)
    /\ UNCHANGED id_map

AttributeScriptObject(self) ==
    /\ Running
    /\ heap[self].attributes_script_object # None \/ objects < MaxObjects
    /\ LET r == attribute_script_object(heap, objects, self)
       IN  /\ heap' = r.h
           /\ objects' = r.objects
           /\ last' = Call("attribute_script_object", self, 0, -1, r.object, r.outcome)
    /\ UNCHANGED <<id_map, constructed>>

Swap(self, other) ==
    /\ Running
    /\ heap' = swap(heap, self, other)
    /\ last' = Call("swap", self, other, -1, 0, "ok")
    /\ constructed' = Swapped(constructed, self, other)
    /\ UNCHANGED <<objects, id_map>>

\* `child` of the record is the node returned.
Duplicate(self, deep) ==
    /\ Running
    /\ LET r == duplicate(heap, self, deep)
       IN  /\ Len(r.h) <= MaxNodes
           /\ heap' = r.h
           /\ last' = Call(IF deep THEN "duplicate_deep" ELSE "duplicate",
                           self, r.node, -1, 0, r.outcome)
    /\ UNCHANGED <<objects, id_map, constructed>>

SetAttributeValue(self, name, value) ==
    /\ Running
    /\ heap' = set_attribute_value(heap, self, name, value)
    /\ last' = [Call("set_attribute_value", self, 0, -1, 0, "ok")
                  EXCEPT !.argument = <<name, value>>]
    /\ UNCHANGED <<objects, id_map, constructed>>

DeleteAttribute(self, name) ==
    /\ Running
    /\ heap' = delete_attribute(heap, self, name)
    /\ last' = [Call("delete_attribute", self, 0, -1, 0, "ok")
                  EXCEPT !.argument = <<name>>]
    /\ UNCHANGED <<objects, id_map, constructed>>

\* The factories; `child` of the record is the node returned.
NewText(contents) ==
    /\ Running
    /\ Len(heap) < MaxNodes
    /\ LET r == new_text(heap, contents)
       IN  /\ heap' = r.h
           /\ last' = Call("new_text", 0, r.node, -1, 0, "ok")
    /\ UNCHANGED <<objects, id_map, constructed>>

NewElement(element_name) ==
    /\ Running
    /\ Len(heap) < MaxNodes
    /\ LET r == new_element(heap, element_name)
       IN  /\ heap' = r.h
           /\ last' = Call("new_element", 0, r.node, -1, 0, "ok")
    /\ UNCHANGED <<objects, id_map, constructed>>

NewDocumentRoot ==
    /\ Running
    /\ Len(heap) < MaxNodes
    /\ LET r == new_document_root(heap)
       IN  /\ heap' = r.h
           /\ last' = Call("new_document_root", 0, r.node, -1, 0, "ok")
    /\ UNCHANGED <<objects, id_map, constructed>>

SetNodeValue(self, value) ==
    /\ Running
    /\ heap' = set_node_value(heap, self, value)
    /\ last' = Call("set_node_value", self, 0, -1, 0, "ok")
    /\ UNCHANGED <<objects, id_map, constructed>>

IntoString(self) ==
    /\ Running
    /\ LET r == into_string(heap, self)
       IN  last' = Read("into_string", self, None, r.outcome, r.out)
    /\ UNCHANGED <<heap, objects, id_map, constructed>>

LookupUriForNamespace(self, namespace) ==
    /\ Running
    /\ LET r == lookup_uri_for_namespace(heap, self, namespace)
       IN  last' = Read("lookup_uri_for_namespace", self, namespace, r.outcome, r.result)
    /\ UNCHANGED <<heap, objects, id_map, constructed>>

LookupNamespaceForUri(self, uri) ==
    /\ Running
    /\ LET r == lookup_namespace_for_uri(heap, self, uri)
       IN  last' = Read("lookup_namespace_for_uri", self, uri, r.outcome, r.result)
    /\ UNCHANGED <<heap, objects, id_map, constructed>>

FromStartEvent(name, attributes) ==
    /\ Running
    /\ LET r == from_start_event(heap, objects, id_map, name, attributes)
       IN  /\ heap' = r.h
           /\ objects' = r.objects
           /\ id_map' = r.id_map
           /\ constructed' = Constructed(constructed, r.objects - objects,
                                         Len(r.h), r.objects)
           /\ last' = Read("from_start_event", 0, <<name, attributes>>, "ok", r.result)

(* ------------------- the tree under structural mutation ---------------- *)

\* The heap after k factory calls: a document root, an element, a text
\* node, an element, ...
RECURSIVE CreatedHeap(_)
CreatedHeap(k) ==
    IF k = 0
    THEN <<>>
    ELSE LET h == CreatedHeap(k - 1)
         IN  IF k % 3 = 1
             THEN new_document_root(h).h
             ELSE IF k % 3 = 2
             THEN new_element(h, CHOOSE e \in ElementNames : TRUE).h
             ELSE new_text(h, CHOOSE t \in TextContents : TRUE).h

Init ==
    /\ heap = CreatedHeap(MaxNodes)
    /\ objects = 0
    /\ id_map = <<>>
    /\ constructed = <<>>
    /\ last = Call("init", 0, 0, -1, 0, "ok")
    /\ steps = 0

\* One more call of a run of at most `limit` calls.
Tick(limit) == steps < limit /\ steps' = steps + 1

\* Runs of at most MaxSteps calls of insert_child, append_child and
\* remove_node, with any container and any child; the position may be one
\* past the end of the list, which Vec::insert rejects with a panic.
Next ==
    \/ \E self \in Nodes(heap), child \in Nodes(heap) :
         \E position \in 0..(children_len(heap, self) + 1) :
            Tick(MaxSteps) /\ InsertChild(self, position, child)
    \/ \E self \in Nodes(heap), child \in Nodes(heap) :
         Tick(MaxSteps) /\ AppendChild(self, child)
    \/ \E self \in Nodes(heap) :
         Tick(MaxSteps) /\ RemoveNode(self)

Spec == Init /\ [][Next]_vars

\* The same calls in runs of at most ShortSteps calls.
NextShort ==
    \/ \E self \in Nodes(heap), child \in Nodes(heap) :
         \E position \in 0..(children_len(heap, self) + 1) :
            Tick(ShortSteps) /\ InsertChild(self, position, child)
    \/ \E self \in Nodes(heap), child \in Nodes(heap) :
         Tick(ShortSteps) /\ AppendChild(self, child)
    \/ \E self \in Nodes(heap) :
         Tick(ShortSteps) /\ RemoveNode(self)

SpecShort == Init /\ [][NextShort]_vars

(* ----------------------- the whole node interface ---------------------- *)

InitApi ==
    /\ heap = CreatedHeap(ApiNodes)
    /\ objects = 0
    /\ id_map = <<>>
    /\ constructed = <<>>
    /\ last = Call("init", 0, 0, -1, 0, "ok")
    /\ steps = 0

\* Runs of at most ApiSteps calls of the node interface.  An object handed
\* to introduce_script_object is one allocated before or a new one.
NextApi ==
    \/ \E self \in Nodes(heap), child \in Nodes(heap) :
         \E position \in 0..(children_len(heap, self) + 1) :
            Tick(ApiSteps) /\ InsertChild(self, position, child)
    \/ \E self \in Nodes(heap), child \in Nodes(heap) :
         Tick(ApiSteps) /\ AppendChild(self, child)
    \/ \E self \in Nodes(heap) :
         Tick(ApiSteps) /\ RemoveNode(self)
    \/ \E self \in Nodes(heap), new_object \in 1..(objects + 1) :
         Tick(ApiSteps) /\ IntroduceScriptObject(self, new_object)
    \/ \E self \in Nodes(heap) :
         Tick(ApiSteps) /\ ScriptObject(self)
    \/ \E self \in Nodes(heap) :
         Tick(ApiSteps) /\ AttributeScriptObject(self)
    \/ \E self \in Nodes(heap), other \in Nodes(heap) :
         Tick(ApiSteps) /\ Swap(self, other)
    \/ \E self \in Nodes(heap), deep \in BOOLEAN :
         Tick(ApiSteps) /\ Duplicate(self, deep)
    \/ \E self \in Nodes(heap), name \in AttributeNames, value \in AttributeValues :
         Tick(ApiSteps) /\ SetAttributeValue(self, name, value)
    \/ \E self \in Nodes(heap), name \in AttributeNames :
         Tick(ApiSteps) /\ DeleteAttribute(self, name)

SpecApi == InitApi /\ [][NextApi]_vars

(* ------------------- structural mutation and attributes --------------- *)

\* Runs of at most ShortSteps calls of insert_child, append_child,
\* remove_node, set_attribute_value and delete_attribute.
NextLeaf ==
    \/ \E self \in Nodes(heap), child \in Nodes(heap) :
         \E position \in 0..(children_len(heap, self) + 1) :
            Tick(ShortSteps) /\ InsertChild(self, position, child)
    \/ \E self \in Nodes(heap), child \in Nodes(heap) :
         Tick(ShortSteps) /\ AppendChild(self, child)
    \/ \E self \in Nodes(heap) :
         Tick(ShortSteps) /\ RemoveNode(self)
    \/ \E self \in Nodes(heap), name \in AttributeNames, value \in AttributeValues :
         Tick(ShortSteps) /\ SetAttributeValue(self, name, value)
    \/ \E self \in Nodes(heap), name \in AttributeNames :
         Tick(ShortSteps) /\ DeleteAttribute(self, name)

SpecLeaf == Init /\ [][NextLeaf]_vars

(* -------------------- structural mutation and duplicate ---------------- *)

\* Runs of at most ShortSteps calls of insert_child, append_child,
\* remove_node and duplicate, from ApiNodes unattached nodes.
NextDup ==
    \/ \E self \in Nodes(heap), child \in Nodes(heap) :
         \E position \in 0..(children_len(heap, self) + 1) :
            Tick(ShortSteps) /\ InsertChild(self, position, child)
    \/ \E self \in Nodes(heap), child \in Nodes(heap) :
         Tick(ShortSteps) /\ AppendChild(self, child)
    \/ \E self \in Nodes(heap) :
         Tick(ShortSteps) /\ RemoveNode(self)
    \/ \E self \in Nodes(heap), deep \in BOOLEAN :
         Tick(ShortSteps) /\ Duplicate(self, deep)

SpecDup == InitApi /\ [][NextDup]_vars

(* ------------------------- factories and values ----------------------- *)

\* Before the first factory call there is no node.
InitValue ==
    /\ heap = <<>>
    /\ objects = 0
    /\ id_map = <<>>
    /\ constructed = <<>>
    /\ last = Call("init", 0, 0, -1, 0, "ok")
    /\ steps = 0

\* Runs of at most ValueSteps calls of the factories, insert_child,
\* append_child, remove_node, set_node_value, duplicate and swap.
NextValue ==
    \/ \E contents \in TextContents :
         Tick(ValueSteps) /\ NewText(contents)
    \/ \E element_name \in ElementNames :
         Tick(ValueSteps) /\ NewElement(element_name)
    \/ Tick(ValueSteps) /\ NewDocumentRoot
    \/ \E self \in Nodes(heap), child \in Nodes(heap) :
         \E position \in 0..(children_len(heap, self) + 1) :
            Tick(ValueSteps) /\ InsertChild(self, position, child)
    \/ \E self \in Nodes(heap), child \in Nodes(heap) :
         Tick(ValueSteps) /\ AppendChild(self, child)
    \/ \E self \in Nodes(heap) :
         Tick(ValueSteps) /\ RemoveNode(self)
    \/ \E self \in Nodes(heap), value \in SerialContents :
         Tick(ValueSteps) /\ SetNodeValue(self, value)
    \/ \E self \in Nodes(heap), deep \in BOOLEAN :
         Tick(ValueSteps) /\ Duplicate(self, deep)
    \/ \E self \in Nodes(heap), other \in Nodes(heap) :
         Tick(ValueSteps) /\ Swap(self, other)

SpecValue == InitValue /\ [][NextValue]_vars

(* ----------------------- calls on assembled documents ------------------ *)

\* The shapes of a document of n nodes: node i is appended to a node
\* created before it.
Shapes(n) == {shape \in [2..n -> 1..n] : \A i \in 2..n : shape[i] < i}

\* The heap after node i, i + 1, ... have been appended to their parents.
RECURSIVE Assemble(_, _, _)
Assemble(h, shape, i) ==
    IF i > Len(h)
    THEN h
    ELSE Assemble(append_child(h, shape[i], i).h, shape, i + 1)

\* The documents of n nodes that factory and append_child calls assemble.
Documents(n) == {Assemble(CreatedHeap(n), shape, 2) : shape \in Shapes(n)}

InitDoc ==
    /\ heap \in Documents(DocNodes)
    /\ objects = 0
    /\ id_map = <<>>
    /\ constructed = <<>>
    /\ last = Call("init", 0, 0, -1, 0, "ok")
    /\ steps = 0

\* Runs of at most DocSteps calls of insert_child, append_child and
\* remove_node on an assembled document.
NextRemoval ==
    \/ \E self \in Nodes(heap), child \in Nodes(heap) :
         \E position \in 0..(children_len(heap, self) + 1) :
            Tick(DocSteps) /\ InsertChild(self, position, child)
    \/ \E self \in Nodes(heap), child \in Nodes(heap) :
         Tick(DocSteps) /\ AppendChild(self, child)
    \/ \E self \in Nodes(heap) :
         Tick(DocSteps) /\ RemoveNode(self)

SpecRemoval == InitDoc /\ [][NextRemoval]_vars

\* Runs of at most SerialSteps calls that set a value or an attribute of a
\* node of an assembled document or render a node.
NextSerial ==
    \/ \E self \in Nodes(heap), value \in SerialContents :
         Tick(SerialSteps) /\ SetNodeValue(self, value)
    \/ \E self \in Nodes(heap), name \in SerialNames, value \in SerialValues :
         Tick(SerialSteps) /\ SetAttributeValue(self, name, value)
    \/ \E self \in Nodes(heap) :
         Tick(SerialSteps) /\ IntoString(self)

SpecSerial == InitDoc /\ [][NextSerial]_vars

\* The document of n nodes in which every node but the first is the only
\* child of the node created before it.
Chain(n) == Assemble(CreatedHeap(n), [i \in 2..n |-> i - 1], 2)

InitNs ==
    /\ heap = Chain(NsNodes)
    /\ objects = 0
    /\ id_map = <<>>
    /\ constructed = <<>>
    /\ last = Call("init", 0, 0, -1, 0, "ok")
    /\ steps = 0

\* Runs of at most NsSteps calls that set an attribute of a node of a chain
\* of NsNodes nodes, with namespace lookups between them.
NextNs ==
    \/ \E self \in Nodes(heap), name \in NsNames, value \in NsUris :
         Tick(NsSteps) /\ SetAttributeValue(self, name, value)
    \/ \E self \in Nodes(heap), namespace \in NsPrefixes :
         LookupUriForNamespace(self, namespace) /\ UNCHANGED steps
    \/ \E self \in Nodes(heap), uri \in NsUris :
         LookupNamespaceForUri(self, uri) /\ UNCHANGED steps

SpecNs == InitNs /\ [][NextNs]_vars

\* Runs of at most AttrSteps calls that set or delete an attribute of a
\* node of a chain of NsNodes nodes.
NextAttr ==
    \/ \E self \in Nodes(heap), name \in NsNames, value \in NsUris :
         Tick(AttrSteps) /\ SetAttributeValue(self, name, value)
    \/ \E self \in Nodes(heap), name \in NsNames :
         Tick(AttrSteps) /\ DeleteAttribute(self, name)

SpecAttr == InitNs /\ [][NextAttr]_vars

(* ------------------------ elements of start tags ----------------------- *)

\* Tag names of the start tags: "a" and a byte that is not UTF-8.
EventNames == {<<97>>, <<255>>}

\* Attribute keys: "id", "x" and the first byte of a two-byte character
\* with nothing after it.
EventKeys == {id, <<120>>, <<195>>}

\* Attribute values as written in the tag: "v", e-acute in UTF-8, "&lt;",
\* "&#xe9;", a byte that is not UTF-8 and an & that starts no entity.
EventValues ==
    {<<118>>, <<195, 169>>, <<38, 108, 116, 59>>, <<38, 35, 120, 101, 57, 59>>,
     <<255>>, <<38>>}

\* The attributes written in a start tag: a key and a value, or text the
\* tokenizer cannot split into a key and a value.
EventAttributes ==
    {[malformed |-> FALSE, key |-> k, value |-> v] : k \in EventKeys, v \in EventValues}
    \cup {[malformed |-> TRUE, key |-> <<>>, value |-> <<>>]}

\* The attribute lists of at most `n` attributes.
Tags(n) == UNION {[1..k -> EventAttributes] : k \in 0..n}

\* Before the first start tag there is no node and the id-map is empty.
InitEvent ==
    /\ heap = <<>>
    /\ objects = 0
    /\ id_map = <<>>
    /\ constructed = <<>>
    /\ last = Call("init", 0, 0, -1, 0, "ok")
    /\ steps = 0

\* Runs of at most EventSteps calls of from_start_event with one id-map.
NextEvent ==
    \/ \E name \in EventNames, attributes \in Tags(MaxAttributes) :
         Tick(EventSteps) /\ FromStartEvent(name, attributes)

SpecEvent == InitEvent /\ [][NextEvent]_vars

(* ------------------- insertion of parentless children ------------------ *)

InitDiscipline ==
    /\ heap = CreatedHeap(DisciplineNodes)
    /\ objects = 0
    /\ id_map = <<>>
    /\ constructed = <<>>
    /\ last = Call("init", 0, 0, -1, 0, "ok")
    /\ steps = 0

\* Runs of at most DisciplineSteps calls in which every insert_child and
\* append_child call is given a child that has no parent at the call and a
\* position within 0..len; remove_node and duplicate are called on any
\* node.
NextDiscipline ==
    \/ \E self \in Nodes(heap), child \in Nodes(heap) :
         \E position \in 0..children_len(heap, self) :
            /\ parent(heap, child) = None
            /\ Tick(DisciplineSteps)
            /\ InsertChild(self, position, child)
    \/ \E self \in Nodes(heap), child \in Nodes(heap) :
         /\ parent(heap, child) = None
         /\ Tick(DisciplineSteps)
         /\ AppendChild(self, child)
    \/ \E self \in Nodes(heap) :
         Tick(DisciplineSteps) /\ RemoveNode(self)
    \/ \E self \in Nodes(heap), deep \in BOOLEAN :
         Tick(DisciplineSteps) /\ Duplicate(self, deep)

SpecDiscipline == InitDiscipline /\ [][NextDiscipline]_vars

(* ------------------- structural invariants of section 3 ---------------- *)

Range(s) == {s[i] : i \in DOMAIN s}

Occurrences(s, x) == Cardinality({i \in DOMAIN s : s[i] = x})

\* I1 for the parent p: the nodes whose parent is p are the nodes of
\* p.children, each of them there once.
I1At(h, p) ==
    \A c \in Nodes(h) :
        /\ (parent(h, c) = Some(p)) <=> (c \in Range(children(h, p)))
        /\ (parent(h, c) = Some(p)) => Occurrences(children(h, p), c) = 1

\* I2 for the parent p: the sibling links of p.children follow the list.
I2At(h, p) ==
    LET cs == children(h, p)
    IN  \A i \in DOMAIN cs :
            /\ prev_sibling(h, cs[i]) = (IF i > 1 THEN Some(cs[i - 1]) ELSE None)
            /\ next_sibling(h, cs[i]) = (IF i < Len(cs) THEN Some(cs[i + 1]) ELSE None)

I1(h) == \A p \in Nodes(h) : I1At(h, p)

I2(h) == \A p \in Nodes(h) : I2At(h, p)

\* The nodes reached from n by one or more steps of the children relation.
ChildrenOf(h, S) == UNION {Range(children(h, m)) : m \in S}

RECURSIVE Grow(_, _)
Grow(h, S) ==
    LET T == S \cup ChildrenOf(h, S)
    IN  IF T = S THEN S ELSE Grow(h, T)

Descendants(h, n) == Grow(h, ChildrenOf(h, {n}))

I3(h) == \A n \in Nodes(h) : n \notin Descendants(h, n)

\* The last call was an insert (insert_child, or append_child, which is
\* insert_child at the end of the list) that returned.
Inserted(l) == l.op \in {"insert_child", "append_child"} /\ l.outcome = "ok"

(* ------------------------------ claims --------------------------------- *)

\* C1: I1 after any sequence of insert_child, append_child and remove_node
\* calls with positions 0..len: c.parent is p exactly if c occurs in
\* p.children, and then c occurs there once.
C1_I1 == Running => I1(heap)

\* C2: I2 after any sequence of insert_child, append_child and remove_node
\* calls: the sibling links of every children list form a doubly linked
\* chain in list order, with absent links at both ends.
C2_I2 == Running => I2(heap)

\* C3: I3 after any sequence of insert_child, append_child and remove_node
\* calls: no node is reached from itself along the children relation.
C3_I3 == Running => I3(heap)

\* C4: reparenting.  From a tree that satisfies I1 and I2, an insert of a
\* child whose parent is another node `old` takes the child out of
\* old.children, puts it at `position` in container.children with
\* child.parent = container, and leaves I1 and I2 true of old and of the
\* container.
C4_Reparenting ==
    [][\A container \in Nodes(heap), child \in Nodes(heap), old \in Nodes(heap) :
          ( /\ Inserted(last')
            /\ last'.self = container
            /\ last'.child = child
            /\ last'.position <= children_len(heap, container)
            /\ ~is_cyclic(heap, container, child)
            /\ parent(heap, child) = Some(old)
            /\ old # container
            /\ I1(heap) /\ I2(heap) )
          => ( /\ child \notin Range(children(heap', old))
               /\ get_child_by_index(heap', container, last'.position) = Some(child)
               /\ parent(heap', child) = Some(container)
               /\ I1At(heap', old) /\ I2At(heap', old)
               /\ I1At(heap', container) /\ I2At(heap', container) )]_vars

\* C5: an insert whose child is the container or is on the container's
\* parent chain returns without an error and changes no field of any node,
\* whatever the position.
C5_CyclicInsertNoOp ==
    [][( /\ last'.op \in {"insert_child", "append_child"}
         /\ is_cyclic(heap, last'.self, last'.child) )
       => ( /\ heap' = heap
            /\ objects' = objects
            /\ last'.outcome = "ok" )]_vars

\* C5 witness: an insert_child of a proper ancestor of the container, at a
\* position past the end of the container's list, has returned.
C5_Witness ==
    /\ last.op = "insert_child"
    /\ last.outcome = "ok"
    /\ last.child # last.self
    /\ is_cyclic(heap, last.self, last.child)
    /\ parent(heap, last.self) # Some(last.child)
    /\ last.position > children_len(heap, last.self)

\* C6: after any sequence of insert_child, append_child and remove_node
\* calls the render of every node ends: it never comes back to a node whose
\* render is under way.
C6_ToStringTerminates ==
    Running => \A n \in Nodes(heap) : into_string(heap, n).outcome # "diverge"

\* C7 as claimed: over any sequence of calls of the node interface, swap
\* among them, a script object bound to a node identity stays bound to it.
C7_WrapperNeverChanges ==
    [][\A n \in Nodes(heap) :
          get_script_object(heap, n) # None
          => get_script_object(heap', n) = get_script_object(heap, n)]_vars

\* C7 amended: a script object bound to a node identity stays bound to it
\* over every call but swap; swap(a, b) exchanges the slots of a and b, as
\* it exchanges the rest of their contents, and leaves every other slot.
C7_WrapperChangesOnlyBySwap ==
    [][\A n \in Nodes(heap) :
          IF last'.op = "swap" /\ n \in {last'.self, last'.child}
          THEN /\ get_script_object(heap', last'.self) = get_script_object(heap, last'.child)
               /\ get_script_object(heap', last'.child) = get_script_object(heap, last'.self)
          ELSE get_script_object(heap, n) # None
               => get_script_object(heap', n) = get_script_object(heap, n)]_vars

\* C7 witness: swap has moved a bound script object from one node
\* identity to another, whose own slot was empty.
C7_Witness ==
    /\ last.op = "swap"
    /\ last.self # last.child
    /\ get_script_object(heap, last.self) = None
    /\ get_script_object(heap, last.child) # None

\* C8: introduce_script_object on a node whose slot holds an object panics
\* and leaves the slot (and every other field) as it was; on a node with
\* an empty slot it returns and the slot holds the given object.
C8_RebindIsFatal ==
    [][last'.op = "introduce_script_object"
       => IF get_script_object(heap, last'.self) # None
          THEN last'.outcome = "panic" /\ heap' = heap
          ELSE /\ last'.outcome = "ok"
               /\ heap' = [heap EXCEPT ![last'.self].script_object = Some(last'.object)]]_vars

\* C8 witness: a second object, different from the bound one, was handed to
\* introduce_script_object: the call panicked and the first is still bound.
C8_Witness ==
    /\ last.op = "introduce_script_object"
    /\ last.outcome = "panic"
    /\ get_script_object(heap, last.self) # None
    /\ get_script_object(heap, last.self) # Some(last.object)

\* What one script_object call does: on a node with a bound object it
\* returns that object, constructs nothing and changes nothing; on a node
\* with an empty slot it has the factory construct one object, which is
\* bound to the node when the call returns and is the object returned; a
\* call that follows a call on the same node returns the same object and
\* constructs nothing.
ScriptObjectCall ==
    /\ last'.outcome = "ok"
    /\ IF get_script_object(heap, last'.self) # None
       THEN /\ last'.object = unwrap(get_script_object(heap, last'.self))
            /\ heap' = heap
            /\ objects' = objects
       ELSE /\ objects' = objects + 1
            /\ last'.object = objects'
            /\ \A n \in Nodes(heap) :
                  get_script_object(heap, n) # Some(last'.object)
            /\ heap' = [heap EXCEPT ![last'.self].script_object = Some(last'.object)]
    /\ (last.op = "script_object" /\ last.self = last'.self)
       => (last'.object = last.object /\ objects' = objects)

\* C9 as claimed: script_object is lazy (ScriptObjectCall), a call on a
\* node the factory has constructed an object for returns that object, and
\* the factory is called at most once for a node, whatever calls of the
\* node interface come between the script_object calls.
C9_ScriptObjectLazy ==
    [][last'.op = "script_object"
       => /\ ScriptObjectCall
          /\ \A i \in DOMAIN constructed :
                constructed[i].node = last'.self
                => last'.object = constructed[i].object
          /\ \A i, j \in DOMAIN constructed' :
                constructed'[i].node = constructed'[j].node => i = j]_vars

\* C9 amended: script_object is lazy (ScriptObjectCall); a call on a node
\* the factory has constructed an object for returns that object as long
\* as swap has not exchanged the contents of the node since, and the
\* factory is called a second time for a node only after such a swap.
C9_ScriptObjectLazyUntilSwap ==
    [][last'.op = "script_object"
       => /\ ScriptObjectCall
          /\ \A i \in DOMAIN constructed :
                (constructed[i].node = last'.self /\ ~constructed[i].swapped)
                => (last'.object = constructed[i].object /\ objects' = objects)
          /\ \A i, j \in DOMAIN constructed' :
                (constructed'[i].node = constructed'[j].node /\ i < j)
                => constructed'[i].swapped]_vars

\* C9 witness: script_object has had the factory construct a second object
\* for a node, whose first object swap had moved to another node.
C9_Witness ==
    /\ last.op = "script_object"
    /\ last.outcome = "ok"
    /\ Len(constructed) = 2
    /\ constructed[1].node = last.self
    /\ constructed[2].node = last.self
    /\ constructed[1].swapped
    /\ get_script_object(heap, last.self) = Some(constructed[2].object)
    /\ \E n \in Nodes(heap) \ {last.self} :
          get_script_object(heap, n) = Some(constructed[1].object)

\* C10: insert position.  With L the container's list, 0 <= position <=
\* len(L) (position = len(L) for append_child) and a child that is not the
\* container, not an ancestor of it and not already its child, the insert
\* makes the list L[0..position] ++ [child] ++ L[position..], makes the
\* container the child's parent, and links the child with L[position-1] and
\* L[position] in both directions where they exist.
C10_InsertPosition ==
    [][\A container \in Nodes(heap), child \in Nodes(heap) :
          LET L == children(heap, container)
              position == IF last'.op = "append_child" THEN Len(L) ELSE last'.position
          IN  ( /\ last'.op \in {"insert_child", "append_child"}
                /\ last'.self = container
                /\ last'.child = child
                /\ position <= Len(L)
                /\ ~is_cyclic(heap, container, child)
                /\ parent(heap, child) # Some(container)
                /\ child \notin Range(L) )
              => ( /\ last'.outcome = "ok"
                   /\ children(heap', container)
                        = SubSeq(L, 1, position) \o <<child>> \o SubSeq(L, position + 1, Len(L))
                   /\ parent(heap', child) = Some(container)
                   /\ prev_sibling(heap', child)
                        = (IF position >= 1 THEN Some(L[position]) ELSE None)
                   /\ next_sibling(heap', child)
                        = (IF position < Len(L) THEN Some(L[position + 1]) ELSE None)
                   /\ position >= 1 => next_sibling(heap', L[position]) = Some(child)
                   /\ position < Len(L) => prev_sibling(heap', L[position + 1]) = Some(child) )]_vars

\* C10 witness: insert_child has put a node between two others, in a list
\* of three different nodes.
C10_Witness ==
    /\ last.op = "insert_child"
    /\ last.outcome = "ok"
    /\ last.position = 1
    /\ children_len(heap, last.self) = 3
    /\ Cardinality(Range(children(heap, last.self))) = 3
    /\ children(heap, last.self)[2] = last.child
    /\ parent(heap, last.child) = Some(last.self)

\* C11: removal relinking.  For a node c at index i of the list L of its
\* parent p, L satisfying I1 and I2, remove_node(c) returns and leaves
\* p.children = L without its entry i, the former neighbours of c linked to
\* each other (an absent link where c was first or last), c without parent
\* and sibling links, and c's children, attributes and value as they were.
C11_RemovalRelinking ==
    [][\A p \in Nodes(heap), c \in Nodes(heap) :
          LET L == children(heap, p)
              i == CHOOSE k \in DOMAIN L : L[k] = c
              before == IF i > 1 THEN Some(L[i - 1]) ELSE None
              after == IF i < Len(L) THEN Some(L[i + 1]) ELSE None
          IN  ( /\ last'.op = "remove_node"
                /\ last'.self = c
                /\ p # c
                /\ parent(heap, c) = Some(p)
                /\ I1At(heap, p) /\ I2At(heap, p) )
              => ( /\ last'.outcome = "ok"
                   /\ children(heap', p) = SubSeq(L, 1, i - 1) \o SubSeq(L, i + 1, Len(L))
                   /\ before # None => next_sibling(heap', unwrap(before)) = after
                   /\ after # None => prev_sibling(heap', unwrap(after)) = before
                   /\ parent(heap', c) = None
                   /\ prev_sibling(heap', c) = None
                   /\ next_sibling(heap', c) = None
                   /\ children(heap', c) = children(heap, c)
                   /\ heap'[c].attributes = heap[c].attributes
                   /\ heap'[c].node_value = heap[c].node_value
                   /\ heap'[c].node_type = heap[c].node_type )]_vars

\* C11 witness: the first call on a document whose root has the children
\* a, c, b (appended in the order of their creation) was remove_node(c); a
\* and b remain and are linked to each other.
C11_Witness ==
    /\ last.op = "remove_node"
    /\ last.outcome = "ok"
    /\ steps = 1
    /\ parent(heap, last.self) = None
    /\ \E p \in Nodes(heap) :
          /\ children_len(heap, p) = 2
          /\ children(heap, p)[1] < last.self
          /\ last.self < children(heap, p)[2]
          /\ next_sibling(heap, children(heap, p)[1]) = Some(children(heap, p)[2])
          /\ prev_sibling(heap, children(heap, p)[2]) = Some(children(heap, p)[1])

\* The node n and the nodes below it.
Subtree(h, n) == {n} \cup Descendants(h, n)

\* The subtrees of a and b have the same kinds, values, attribute maps and
\* child order at every level.
RECURSIVE Isomorphic(_, _, _)
Isomorphic(h, a, b) ==
    /\ h[a].node_type = h[b].node_type
    /\ h[a].node_value = h[b].node_value
    /\ h[a].attributes = h[b].attributes
    /\ children_len(h, a) = children_len(h, b)
    /\ \A i \in 1..children_len(h, a) :
          Isomorphic(h, children(h, a)[i], children(h, b)[i])

\* What C12 says of r, the result of duplicate(h, n, deep).
DuplicateContract(h, n, deep, r) ==
    /\ r.outcome = "ok"
    /\ r.node \notin Nodes(h)
    /\ \A m \in Nodes(h) : r.h[m] = h[m]
    /\ parent(r.h, r.node) = None
    /\ prev_sibling(r.h, r.node) = None
    /\ next_sibling(r.h, r.node) = None
    /\ \A m \in Subtree(r.h, r.node) :
          /\ m \notin Nodes(h)
          /\ r.h[m].script_object = None
          /\ r.h[m].attributes_script_object = None
          /\ I1At(r.h, m) /\ I2At(r.h, m)
    /\ r.h[r.node].node_type = h[n].node_type
    /\ r.h[r.node].node_value = h[n].node_value
    /\ r.h[r.node].attributes = h[n].attributes
    /\ IF deep
       THEN Isomorphic(r.h, n, r.node)
       ELSE children(r.h, r.node) = <<>>

\* C12: duplication.  In every state reached by insert_child, append_child
\* and remove_node calls, duplicate(n, deep) returns a new node without
\* parent, siblings and script objects, of n's kind, value and attributes,
\* without children if deep is false and with a subtree isomorphic to n's,
\* of new nodes that satisfy I1 and I2, if deep is true; no node that
\* existed before is changed.
C12_Duplication ==
    Running => \A n \in Nodes(heap), deep \in BOOLEAN :
                  DuplicateContract(heap, n, deep, duplicate(heap, n, deep))

\* C12 where the children relation below n has no cycle: there duplicate
\* keeps the contract.
C12_DuplicationOfTrees ==
    Running => \A n \in Nodes(heap), deep \in BOOLEAN :
                  (\A m \in Subtree(heap, n) : m \notin Descendants(heap, m))
                  => DuplicateContract(heap, n, deep, duplicate(heap, n, deep))

\* C12, the clone afterwards: a call that follows duplicate and is made on
\* nodes of the clone's subtree (an attribute set or deleted, a node
\* inserted, appended or removed) changes no node of the source's subtree.
C12_CloneIsIndependent ==
    [][( /\ last.op \in {"duplicate", "duplicate_deep"}
         /\ last.outcome = "ok"
         /\ last'.op \in {"insert_child", "append_child", "remove_node",
                          "set_attribute_value", "delete_attribute"}
         /\ last'.self \in Subtree(heap, last.child)
         /\ last'.op \in {"insert_child", "append_child"}
              => last'.child \in Subtree(heap, last.child) )
       => \A m \in Subtree(heap, last.self) : heap'[m] = heap[m]]_vars

\* The reference render of C13, with the escaping rule of the serializer
\* applied to the letters of a value.
RECURSIVE RenderAttributes(_, _)
RenderAttributes(attrs, keys) ==
    IF keys = <<>>
    THEN <<>>
    ELSE <<32>> \o keys[1] \o <<61, 34>> \o escape(attrs[keys[1]]) \o <<34>>
         \o RenderAttributes(attrs, SubSeq(keys, 2, Len(keys)))

RECURSIVE Render(_, _)
RECURSIVE RenderAll(_, _)
RenderAll(h, cs) ==
    IF cs = <<>>
    THEN <<>>
    ELSE Render(h, cs[1]) \o RenderAll(h, SubSeq(cs, 2, Len(cs)))

Render(h, n) ==
    IF h[n].node_type = TEXT_NODE
    THEN escape(unwrap(h[n].node_value))
    ELSE IF h[n].node_value = None
    THEN RenderAll(h, children(h, n))
    ELSE <<60>> \o unwrap(h[n].node_value)
         \o RenderAttributes(h[n].attributes, attribute_keys(h, n))
         \o (IF children(h, n) = <<>>
             THEN <<32, 47, 62>>
             ELSE <<62>> \o RenderAll(h, children(h, n))
                  \o <<60, 47>> \o unwrap(h[n].node_value) \o <<62>>)

\* C13: serialization structure.  The string into_string returns for a node
\* is the reference render of the node: start tag with the attributes in
\* key order and escaped values, " />" or the children's renders and the
\* end tag for an element with a tag name, the children's renders alone for
\* an element without one, the escaped content for a text node.
C13_SerializationStructure ==
    (last.op = "into_string" /\ last.outcome = "ok")
    => last.result = Render(heap, last.self)

\* The letters of every value and attribute value of h are ASCII letters.
Ascii(h) ==
    \A n \in Nodes(h) :
        /\ h[n].node_value # None
             => \A i \in DOMAIN unwrap(h[n].node_value) : unwrap(h[n].node_value)[i] < 128
        /\ \A k \in DOMAIN h[n].attributes :
              \A i \in DOMAIN h[n].attributes[k] : h[n].attributes[k][i] < 128

\* C13 for documents of ASCII letters: there into_string returns the
\* reference render.
C13_SerializationOfAscii ==
    (last.op = "into_string" /\ last.outcome = "ok" /\ Ascii(heap))
    => last.result = Render(heap, last.self)

\* The walk of the namespace lookups: n, its parent, its parent's parent,
\* ... (the parent chains of SpecNs end).
Walk(h, n) == ancestors(h, n).nodes

\* The least element of a nonempty set of integers.
Min(S) == CHOOSE i \in S : \A j \in S : i <= j

\* Node m declares the prefix: it has the attribute xmlns:prefix or, for the
\* empty prefix, the attribute xmlns, which is looked at first.
Declares(h, m, prefix) ==
    \/ xmlns_colon \o prefix \in DOMAIN h[m].attributes
    \/ prefix = <<>> /\ xmlns \in DOMAIN h[m].attributes

DeclaredValue(h, m, prefix) ==
    IF prefix = <<>> /\ xmlns \in DOMAIN h[m].attributes
    THEN h[m].attributes[xmlns]
    ELSE h[m].attributes[xmlns_colon \o prefix]

\* C14: lookup_uri_for_namespace(n, prefix) returns, without an error, the
\* value declared by the first node of the walk from n outwards that
\* declares the prefix (xmlns before xmlns: for the empty prefix), and
\* nothing exactly if no node of the walk declares it.
C14_LookupUriForNamespace ==
    last.op = "lookup_uri_for_namespace"
    => LET walk == Walk(heap, last.self)
           hits == {i \in DOMAIN walk : Declares(heap, walk[i], last.argument)}
       IN  /\ last.outcome = "ok"
           /\ last.result = IF hits = {}
                            THEN None
                            ELSE Some(DeclaredValue(heap, walk[Min(hits)], last.argument))

\* C14 witness: a lookup of the empty prefix on a node with a parent
\* returned the value of the node's own xmlns attribute, the parent's
\* xmlns attribute having another value.
C14_Witness ==
    /\ last.op = "lookup_uri_for_namespace"
    /\ last.argument = <<>>
    /\ last.result # None
    /\ attribute_value(heap, last.self, xmlns) = last.result
    /\ parent(heap, last.self) # None
    /\ attribute_value(heap, unwrap(parent(heap, last.self)), xmlns) # None
    /\ attribute_value(heap, unwrap(parent(heap, last.self)), xmlns) # last.result

\* The attributes of m that name a namespace of the given URI.
Matches(h, m, uri) ==
    {k \in DOMAIN h[m].attributes :
        /\ h[m].attributes[k] = uri
        /\ k = xmlns \/ starts_with(k, xmlns_colon)}

\* The least key of a nonempty set of keys.
FirstKey(S) == CHOOSE k \in S : \A j \in S : k = j \/ StrLess(k, j)

\* The prefix that the key xmlns or xmlns:<p> stands for.
PrefixOf(k) == IF k = xmlns THEN <<>> ELSE SubSeq(k, Len(xmlns_colon) + 1, Len(k))

\* C15: lookup_namespace_for_uri(n, uri) returns the prefix of the least
\* key, among the attributes xmlns and xmlns:<p> whose value is the URI, of
\* the first node of the walk from n outwards that has such an attribute
\* (an attribute of another key is passed over, whatever its value), and
\* nothing exactly if no node of the walk has one.
C15_LookupNamespaceForUri ==
    last.op = "lookup_namespace_for_uri"
    => LET walk == Walk(heap, last.self)
           hits == {i \in DOMAIN walk : Matches(heap, walk[i], last.argument) # {}}
       IN  /\ last.outcome = "ok"
           /\ last.result =
                IF hits = {}
                THEN None
                ELSE Some(PrefixOf(FirstKey(Matches(heap, walk[Min(hits)], last.argument))))

\* C15 witness: a lookup returned the prefix a of the node's attribute
\* xmlns:a, passing over the node's attribute x of the same value.
C15_Witness ==
    /\ last.op = "lookup_namespace_for_uri"
    /\ last.result = Some(<<97>>)
    /\ attribute_value(heap, last.self, <<120>>) = Some(last.argument)
    /\ attribute_value(heap, last.self, xmlns_colon \o <<97>>) = Some(last.argument)

\* C16: swap.  For two different nodes a and b, swap(a, b) leaves in a's
\* cell the data b's cell held (kind, value, attributes, children, parent
\* and sibling links) and in b's cell the data a's cell held, changes no
\* other node, and a second swap(a, b) restores the heap; swap(a, a)
\* changes nothing.
C16_Swap ==
    [][last'.op = "swap"
       => LET a == last'.self
              b == last'.child
          IN  /\ last'.outcome = "ok"
              /\ heap'[a] = heap[b]
              /\ heap'[b] = heap[a]
              /\ \A n \in Nodes(heap) \ {a, b} : heap'[n] = heap[n]
              /\ Nodes(heap') = Nodes(heap)
              /\ swap(heap', a, b) = heap
              /\ a = b => heap' = heap]_vars

\* C16 witness: swap has exchanged the data of two different nodes, one of
\* which had a child and the other none.
C16_Witness ==
    /\ last.op = "swap"
    /\ last.self # last.child
    /\ children(heap, last.self) # <<>>
    /\ children(heap, last.child) = <<>>

\* attribute_keys yields the keys of n's attributes, each once, ascending.
KeysInOrder(h, n) ==
    LET keys == attribute_keys(h, n)
    IN  /\ Range(keys) = DOMAIN h[n].attributes
        /\ \A i \in DOMAIN keys, j \in DOMAIN keys : i < j => StrLess(keys[i], keys[j])

\* The parent, sibling and children fields of every node are the same in
\* g and h.
SameStructure(g, h) ==
    /\ Nodes(g) = Nodes(h)
    /\ \A m \in Nodes(g) :
          /\ parent(g, m) = parent(h, m)
          /\ prev_sibling(g, m) = prev_sibling(h, m)
          /\ next_sibling(g, m) = next_sibling(h, m)
          /\ children(g, m) = children(h, m)

\* C17: attribute table.  After set_attribute_value(name, v) on a node,
\* attribute_value(name) is v and every other key has the value it had;
\* after delete_attribute(name), attribute_value(name) is absent and every
\* other key has the value it had, and nothing at all changes if the name
\* was missing; attribute_keys yields every key once, in ascending order;
\* neither call changes a parent, sibling or children field.
C17_AttributeTable ==
    [][last'.op \in {"set_attribute_value", "delete_attribute"}
       => LET n == last'.self
              name == last'.argument[1]
              others == ((DOMAIN heap[n].attributes) \cup (DOMAIN heap'[n].attributes)
                         \cup NsNames) \ {name}
          IN  /\ last'.outcome = "ok"
              /\ IF last'.op = "set_attribute_value"
                 THEN attribute_value(heap', n, name) = Some(last'.argument[2])
                 ELSE /\ attribute_value(heap', n, name) = None
                      /\ attribute_value(heap, n, name) = None => heap' = heap
              /\ \A k \in others :
                    attribute_value(heap', n, k) = attribute_value(heap, n, k)
              /\ KeysInOrder(heap', n)
              /\ SameStructure(heap, heap')]_vars

\* C17 witness: the second call of a run has set the key x on a node that
\* had the greater key xmlns: attribute_keys yields x before xmlns.
C17_Witness ==
    /\ last.op = "set_attribute_value"
    /\ last.argument[1] = <<120>>
    /\ attribute_keys(heap, last.self) = <<<<120>>, xmlns>>
    /\ steps = 2

\* Every node whose parent is p is in p.children.
ParentListed(h) ==
    \A c \in Nodes(h), p \in Nodes(h) :
        parent(h, c) = Some(p) => c \in Range(children(h, p))

\* C18: over any sequence of insert_child, append_child, remove_node and
\* duplicate calls, every node whose parent is p is in p.children after
\* every call that returns, so that remove_node finds its node and returns
\* (its unwrap never panics); remove_node of a node without a parent
\* changes nothing.
C18_RemoveNodeFindsNode ==
    [][/\ last'.outcome = "ok" => ParentListed(heap')
       /\ last'.op = "remove_node"
            => /\ last'.outcome = "ok"
               /\ parent(heap, last'.self) = None => heap' = heap]_vars

\* C18 witness: after an insert and a deep duplicate of the parent,
\* remove_node has found and removed the child of the clone.
C18_Witness ==
    /\ last.op = "remove_node"
    /\ last.outcome = "ok"
    /\ steps = 3
    /\ Len(heap) = ApiNodes + 2
    /\ last.self = Len(heap)
    /\ parent(heap, last.self) = None
    /\ \E p \in Nodes(heap) : children(heap, p) # <<>>

\* An element without a value, as new_document_root creates it.
RootLike(h, n) == h[n].node_type = ELEMENT_NODE /\ h[n].node_value = None

\* Node n after the call l is node m before it, or its image: the content
\* of m moved to n by swap, or a copy of m made by duplicate.
ImageOf(h, l, n, m) ==
    IF l.op = "swap" /\ n \in {l.self, l.child}
    THEN {n, m} = {l.self, l.child}
    ELSE IF n \in Nodes(h)
    THEN m = n
    ELSE /\ l.op \in {"duplicate", "duplicate_deep"}
         /\ m \in Subtree(h, l.self)

\* C19: I5.  Over any sequence of factory, insert_child, append_child,
\* remove_node, set_node_value, duplicate and swap calls, every text node
\* has a value, so that its render never unwraps a missing value; and an
\* element without a value is a node new_document_root has just returned,
\* or was an element without a value before the call, or is the swap or
\* duplicate image of one.
C19_TextHasValue ==
    [][\A n \in Nodes(heap') :
          /\ heap'[n].node_type = TEXT_NODE
               => /\ heap'[n].node_value # None
                  /\ into_string(heap', n).outcome # "panic"
          /\ RootLike(heap', n)
               => \/ last'.op = "new_document_root" /\ n = last'.child
                  \/ \E m \in Nodes(heap) :
                        RootLike(heap, m) /\ ImageOf(heap, last', n, m)]_vars

\* C19 witness: duplicate has returned the copy of a text node whose value
\* set_node_value had set.
C19_Witness ==
    /\ last.op \in {"duplicate", "duplicate_deep"}
    /\ last.outcome = "ok"
    /\ heap[last.child].node_type = TEXT_NODE
    /\ heap[last.child].node_value # None
    /\ unwrap(heap[last.child].node_value) \in SerialContents

\* C20: text nodes are leaves.  Over any sequence of insert_child,
\* append_child, remove_node, set_attribute_value and delete_attribute
\* calls, every text node has an empty children list and an empty
\* attribute table.
C20_TextNodesAreLeaves ==
    Running => \A n \in Nodes(heap) :
                  heap[n].node_type = TEXT_NODE
                  => /\ children(heap, n) = <<>>
                     /\ DOMAIN heap[n].attributes = {}

\* C20, the children alone: no text node has a child.
C20_TextNodesHaveNoChildren ==
    Running => \A n \in Nodes(heap) :
                  heap[n].node_type = TEXT_NODE => children(heap, n) = <<>>

\* C20, the attributes alone: no text node has an attribute.
C20_TextNodesHaveNoAttributes ==
    Running => \A n \in Nodes(heap) :
                  heap[n].node_type = TEXT_NODE => DOMAIN heap[n].attributes = {}

\* C21: a from_start_event call that returns the decoding error leaves the
\* id-map as it was before the call.
C21_FailedConstructionLeavesNothing ==
    [][(last'.op = "from_start_event" /\ last'.result = None)
       => id_map' = id_map]_vars

\* What a failed call does leave: the entries of the id-map that changed
\* name the object of the node the call allocated and then gave up.
C21_FailedConstructionLeavesItsNode ==
    [][(last'.op = "from_start_event" /\ last'.result = None)
       => \A k \in DOMAIN id_map' :
             \/ k \in DOMAIN id_map /\ id_map'[k] = id_map[k]
             \/ /\ Len(heap') = Len(heap) + 1
                /\ heap'[Len(heap')].script_object = Some(id_map'[k])]_vars

\* A call that returns a node has recorded the object of the node under
\* the value of each id attribute of the tag, and nothing else.
C21_ConstructionRecordsId ==
    [][(last'.op = "from_start_event" /\ last'.result # None)
       => LET node == unwrap(last'.result)
              attributes == last'.argument[2]
              ids == {new_utf8_bytes(unescaped_value(attributes[i].value).bytes).units :
                        i \in {j \in DOMAIN attributes : attributes[j].key = id}}
          IN  /\ node = Len(heap')
              /\ \A k \in ids : id_map'[k] = unwrap(heap'[node].script_object)
              /\ \A k \in (DOMAIN id_map') \ ids :
                    k \in DOMAIN id_map /\ id_map'[k] = id_map[k]]_vars

\* Whether the attribute loop stops at this attribute.
Undecodable(attribute) ==
    \/ attribute.malformed
    \/ ~new_utf8_bytes(attribute.key).ok
    \/ ~unescaped_value(attribute.value).ok
    \/ ~new_utf8_bytes(unescaped_value(attribute.value).bytes).ok

\* Whether the key of the attribute was written before in the tag.
Repeated(attributes, i) ==
    \E j \in DOMAIN attributes :
       j < i /\ ~attributes[j].malformed /\ ~attributes[i].malformed
             /\ attributes[j].key = attributes[i].key

\* A call fails exactly when the tag name or one of the attributes does not
\* decode or a key is repeated, and a call that fails on the tag name, or
\* on an attribute that no id attribute comes before, leaves the id-map as
\* it was.
C21_FailureBeforeId ==
    [][last'.op = "from_start_event"
       => LET name == last'.argument[1]
              attributes == last'.argument[2]
              stops == {i \in DOMAIN attributes :
                          Undecodable(attributes[i]) \/ Repeated(attributes, i)}
              early == \A i \in DOMAIN attributes :
                          attributes[i].key = id => \E j \in stops : j <= i
          IN  /\ last'.result = None <=> (~new_utf8_bytes(name).ok \/ stops # {})
              /\ (last'.result = None /\ (~new_utf8_bytes(name).ok \/ early))
                 => id_map' = id_map]_vars

\* The node reached from `n` by following the parent link `k` times, and
\* None when the chain has ended before.
RECURSIVE Up(_, _, _)
Up(h, n, k) ==
    IF k = 0
    THEN Some(n)
    ELSE LET below == Up(h, n, k - 1)
         IN  IF below = None THEN None ELSE h[unwrap(below)].parent

\* The parent chain of `n` reaches a parentless node without coming back
\* to a node: a chain of distinct nodes has at most Len(h) of them.
ChainEnds(h, n) == Up(h, n, Len(h)) = None

\* C22: without swap the parent chain of every node ends at a parentless
\* node without revisiting a node, so that the ancestor iterator, the cycle
\* check of insert_child and both namespace lookups end for every node.
C22_ParentChainAcyclic ==
    \A n \in Nodes(heap) :
       /\ ChainEnds(heap, n)
       /\ ~ancestors(heap, n).loops
       /\ \A namespace \in NsPrefixes :
             lookup_uri_for_namespace(heap, n, namespace).outcome = "ok"
       /\ \A uri \in NsUris :
             lookup_namespace_for_uri(heap, n, uri).outcome = "ok"

\* An insertion has built a chain of three nodes, one of them a clone
\* that duplicate returned.
C22_Witness ==
    /\ Running
    /\ last.op \in {"insert_child", "append_child"}
    /\ Len(heap) > ApiNodes
    /\ last.child > ApiNodes \/ last.self > ApiNodes
    /\ parent(heap, last.child) = Some(last.self)
    /\ \E n \in Nodes(heap) : Len(ancestors(heap, n).nodes) = 3

\* C23: when every insert_child and append_child call is given a position
\* within 0..len and a child that has no parent at the call, I1 (each child
\* exactly once in the list of its parent, and only there), I2 and I3 hold
\* in every state reached by such calls and by remove_node calls, and none
\* of the calls panics.
C23_InvariantsUnderDiscipline ==
    /\ Running
    /\ I1(heap)
    /\ I2(heap)
    /\ I3(heap)

\* A clone that duplicate returned has been inserted in the middle of a
\* list, between two children inserted before.
C23_Witness ==
    /\ last.op = "insert_child"
    /\ last.outcome = "ok"
    /\ last.position = 1
    /\ last.child > DisciplineNodes
    /\ Len(children(heap, last.self)) = 3
    /\ children(heap, last.self)[2] = last.child

====
